---- MODULE Spec2Model ----
(***************************************************************************)
(* Job lifecycle of the WAN 2.2 gateway (app.py): the in-memory job store, *)
(* the background driver process_job_runpod with its simulation fallback   *)
(* simulate_generation, and the HTTP handlers api_create_job, api_get_job, *)
(* api_list_jobs and api_webhook.                                          *)
(*                                                                         *)
(* The server is a single asyncio event loop: a coroutine runs without     *)
(* interruption from one await to the next.  Every action below is one     *)
(* such uninterrupted segment of a coroutine.  get_job returns the dict    *)
(* object held by jobs_store, so the `job` a coroutine holds across an     *)
(* await is the stored record itself: an assignment job[k] = v is visible  *)
(* to every other coroutine at once, and save_job stores the same object   *)
(* back under its key.                                                     *)
(***************************************************************************)
EXTENDS Integers, Sequences, FiniteSets, TLC

(***************************************************************************)
(* Bounds of the model.                                                    *)
(***************************************************************************)
\* datetime.utcnow() is read from a clock that counts 0..MaxClock
MaxClock == 1
\* iteration budget of the poll loop (max_polls, 600 in app.py:239)
MaxPolls == 4

(***************************************************************************)
(* Values.                                                                 *)
(***************************************************************************)
\* Python None in a string-valued field
None == "None"
\* Python None in a timestamp field
NoTime == -1
\* dict.get on a key the dict does not have
Missing == "<missing>"

\* ids str(uuid.uuid4())[:8] produces; every id it returns is new
JobIds == {"a1b2c3d4"}

\* characters of a prompt; Whitespace is what str.strip() removes
Whitespace == {" ", "\t"}
Prompts == { <<>>, <<" ">>, <<"\t", " ">>, <<" ", "f", " ", "x", "\t">> }

\* provider output objects: the value under each of the keys, or Missing
OutVideoUrl == [video_url |-> "https://x/y.mp4", url |-> Missing, result |-> Missing]
OutResult   == [video_url |-> Missing, url |-> Missing, result |-> "https://x/r.mp4"]
OutEmpty    == [video_url |-> Missing, url |-> Missing, result |-> Missing]
Outputs     == {OutVideoUrl, OutResult}

\* str.upper() on the status strings
upper(s) == IF s = "completed" THEN "COMPLETED" ELSE s

\* dict.get(key): None when the key is absent
get(d, k) == IF d[k] = Missing THEN None ELSE d[k]
\* the default taken whatever the dict holds
get_default_ignored(d, k, default) == default
\* dict.get(key, default)
get_default(d, k, default) == IF d[k] = Missing THEN default ELSE d[k]
\* Python truthiness of a str-or-None value
truthy(v) == v # None /\ v # ""
\* Python `a or b`
or(a, b) == IF truthy(a) THEN a ELSE b

\* str.strip(): drop leading and trailing whitespace
RECURSIVE lstrip(_)
lstrip(s) == IF s # <<>> /\ Head(s) \in Whitespace THEN lstrip(Tail(s)) ELSE s
RECURSIVE rstrip(_)
rstrip(s) == IF s # <<>> /\ s[Len(s)] \in Whitespace
             THEN rstrip(SubSeq(s, 1, Len(s) - 1)) ELSE s
\* strip() left out: the prompt is taken as sent
strip_none(s) == s
strip(s) == rstrip(lstrip(s))

\* a JSON body: valid = FALSE is a body request.json()/response.json() rejects
Body(valid, status, output, error) ==
    [valid |-> valid, status |-> status, output |-> output, error |-> error]
Malformed == Body(FALSE, "", OutEmpty, Missing)
TerminalBodies ==
    { Body(TRUE, "COMPLETED", o, Missing) : o \in Outputs }
    \cup { Body(TRUE, "completed", OutVideoUrl, Missing) }
    \cup { Body(TRUE, "FAILED", OutEmpty, e) : e \in {Missing, "boom"} }
\* bodies of webhook requests
WebhookBodies ==
    TerminalBodies \cup { Body(TRUE, "IN_PROGRESS", OutEmpty, Missing), Malformed }

(***************************************************************************)
(* State.                                                                  *)
(***************************************************************************)
VARIABLES
    RUNPOD_CONFIGURED, \* app.py:40, fixed at import
    sample_exists,     \* whether static/sample.mp4 exists
    jobs_store,        \* job_id -> record, NoJob when the key is absent
    keys,              \* the keys of jobs_store in the order the dict holds them
    task,              \* job_id -> the background task of that job
    now,               \* the clock datetime.utcnow() reads
    last,              \* the last exchange: a request served with its response,
                       \* or an answer received from the provider
    terminal_writes    \* history: job_id -> who wrote which terminal status

vars == <<RUNPOD_CONFIGURED, sample_exists, jobs_store, keys, task, now, last,
          terminal_writes>>

NoJob == [job_id |-> None, prompt |-> <<>>, negative_prompt |-> None, seed |-> 0,
          steps |-> 0, cfg_scale |-> None, duration_seconds |-> None, fps |-> 0,
          width |-> 0, height |-> 0, aspect |-> None, image_url |-> None,
          status |-> None, progress |-> 0,
          message |-> None, created_at |-> NoTime, completed_at |-> NoTime,
          runpod_job_id |-> None, video_url |-> None, error |-> None,
          output |-> <<>>]

\* a task that has not been added
NoTask == [pc |-> "none", poll_count |-> 0, i |-> 0]

\* the body api_get_job returns
JobView(job) == [job_id |-> job.job_id, status |-> job.status,
                 video_url |-> job.video_url, error |-> job.error,
                 progress |-> job.progress, message |-> job.message]

\* an answer to POST {RUNPOD_ENDPOINT_URL}/run
RunResponse(kind, id, code) == [kind |-> kind, id |-> id, code |-> code]
NoRun == RunResponse("none", None, 0)

\* op: "create", "get", "webhook" for a request served (prompt or body is what
\* the request carried; code, ok and view are the response), "list" for a
\* list request served (limit and status are its query, jobs its response),
\* "run" and "status" for an answer of the provider (in run, or in code and
\* body)
Exchange(op, job_id, prompt, body, run, code, ok, view) ==
    [op |-> op, job_id |-> job_id, prompt |-> prompt, body |-> body, run |-> run,
     code |-> code, ok |-> ok, view |-> view,
     limit |-> 0, status |-> None, jobs |-> <<>>]
NoExchange == Exchange("none", None, <<>>, Malformed, NoRun, 0, FALSE, JobView(NoJob))
Request(op, job_id, prompt, body, code, ok, view) ==
    Exchange(op, job_id, prompt, body, NoRun, code, ok, view)

\* a terminal status written by `by`: "poll" (the provider's answer to a
\* status request), "driver" (any other write of process_job_runpod),
\* "simulation" or "webhook"
Write(by, status) == [by |-> by, status |-> status]
wrote(job_id, by, status) ==
    [terminal_writes EXCEPT ![job_id] = @ \cup {Write(by, status)}]

\* ids a request path can carry: the generated ones and one that never is
RequestIds == JobIds \cup {"nonexistent"}

\* jobs.get(job_id)
get_job(job_id) ==
    IF job_id \in DOMAIN jobs_store THEN jobs_store[job_id] ELSE NoJob
\* `if not job`
found(job) == job # NoJob
\* jobs[job_id] = job_data
save_job(job_id, job_data) == [jobs_store EXCEPT ![job_id] = job_data]
\* the keys after jobs[job_id] = ...: a new key goes last, a key the dict
\* holds keeps its place
inserted(job_id) ==
    IF \E k \in 1..Len(keys) : keys[k] = job_id THEN keys ELSE Append(keys, job_id)

\* the ids the store does not hold: those a uuid4 prefix that repeats no
\* earlier one can be
FreshIds == { id \in DOMAIN jobs_store : ~found(jobs_store[id]) }

Terminal == {"completed", "failed"}

Init ==
    /\ RUNPOD_CONFIGURED \in BOOLEAN
    /\ sample_exists \in BOOLEAN
    /\ jobs_store = [id \in JobIds |-> NoJob]
    /\ keys = <<>>
    /\ task = [id \in JobIds |-> NoTask]
    /\ now = 0
    /\ last = NoExchange
    /\ terminal_writes = [id \in JobIds |-> {}]

\* time passes
Tick ==
    /\ now < MaxClock
    /\ now' = now + 1
    /\ UNCHANGED <<RUNPOD_CONFIGURED, sample_exists, keys, jobs_store, task, last,
                   terminal_writes>>

(***************************************************************************)
(* POST /api/jobs                                                          *)
(***************************************************************************)
\* the record api_create_job builds, for a request that carries a prompt and
\* leaves every other field of JobCreateRequest at its default (lines 117-127,
\* no settings): the generation parameters are those defaults
job_data(job_id, prompt) ==
    [job_id |-> job_id, prompt |-> prompt, negative_prompt |-> "", seed |-> -1,
     steps |-> 30, cfg_scale |-> "7.5", duration_seconds |-> "4.0", fps |-> 24,
     width |-> 512, height |-> 512, aspect |-> "16:9", image_url |-> None,
     status |-> "queued", progress |-> 0,
     message |-> "Job queued", created_at |-> now, completed_at |-> NoTime,
     runpod_job_id |-> None, video_url |-> None, error |-> None,
     output |-> <<>>]

\* the prompt is empty after strip(): 400, nothing stored
api_create_job_rejected(prompt) ==
    /\ strip(prompt) = <<>>
    /\ last' = Request("create", None, prompt, Malformed, 400, FALSE, JobView(NoJob))
    /\ UNCHANGED <<RUNPOD_CONFIGURED, sample_exists, keys, jobs_store, task, now,
                   terminal_writes>>

\* the driver's first segment run inside the request instead of after it
api_create_job_inline(prompt, job_id) ==
    /\ strip(prompt) # <<>>
    /\ keys' = inserted(job_id)
    /\ jobs_store' = save_job(job_id,
            [job_data(job_id, strip(prompt)) EXCEPT !.status = "running",
                                                   !.progress = 5])
    /\ task' = [task EXCEPT ![job_id] =
                    [pc |-> IF RUNPOD_CONFIGURED THEN "connect" ELSE "sim",
                     poll_count |-> 0, i |-> 0]]
    /\ last' = Request("create", job_id, prompt, Malformed, 200, TRUE,
                       [JobView(NoJob) EXCEPT !.job_id = job_id, !.status = "queued"])
    /\ UNCHANGED <<RUNPOD_CONFIGURED, sample_exists, now, terminal_writes>>

\* the record is stored, the driver is added as a background task, and the
\* response is returned; the task starts after the response.  job_id is what
\* str(uuid.uuid4())[:8] gave; it is not tested against the store, and the
\* record and the task of an id the store holds are replaced
api_create_job(prompt, job_id) ==
    /\ strip(prompt) # <<>>
    /\ keys' = inserted(job_id)
    /\ jobs_store' = save_job(job_id, job_data(job_id, strip(prompt)))
    /\ task' = [task EXCEPT ![job_id] = [pc |-> "scheduled", poll_count |-> 0, i |-> 0]]
    /\ last' = Request("create", job_id, prompt, Malformed, 200, TRUE,
                       [JobView(NoJob) EXCEPT !.job_id = job_id, !.status = "queued"])
    /\ UNCHANGED <<RUNPOD_CONFIGURED, sample_exists, now, terminal_writes>>

(***************************************************************************)
(* simulate_generation                                                     *)
(***************************************************************************)
\* steps = 10 (app.py:150)
steps == 10
\* the quotient (i + 1) / steps taken as an integer division
sim_progress_intdiv(i) == 10 + ((i + 1) \div steps) * 85
\* progress = 10 + int((i + 1) / steps * 85), i the loop index from 0
sim_progress(i) == 10 + ((i + 1) * 85) \div steps
sim_message(progress) == "Generating video... (" \o ToString(progress) \o "%)"

NotConnected == "Generation complete - RunPod not connected yet. Configure RUNPOD_API_KEY and RUNPOD_ENDPOINT_ID for real video generation."

\* lines 159-171: the completion written after the loop
sim_complete(job) ==
    IF sample_exists
    THEN [job EXCEPT !.status = "completed", !.video_url = "/static/sample.mp4",
                     !.message = "Generation complete (demo mode)",
                     !.progress = 100, !.completed_at = now]
    ELSE [job EXCEPT !.status = "completed", !.video_url = None,
                     !.message = NotConnected,
                     !.progress = 100, !.completed_at = now]

\* the missing configuration treated as a failure of the job
simulate_generation_begin_fails(job_id) ==
    /\ task[job_id].pc = "scheduled"
    /\ ~RUNPOD_CONFIGURED
    /\ jobs_store' = save_job(job_id,
            [get_job(job_id) EXCEPT !.status = "failed",
                                    !.error = "RunPod not configured",
                                    !.completed_at = now])
    /\ task' = [task EXCEPT ![job_id].pc = "done"]
    /\ terminal_writes' = wrote(job_id, "driver", "failed")
    /\ last' = NoExchange
    /\ UNCHANGED <<RUNPOD_CONFIGURED, sample_exists, keys, now>>

\* the task starts with RunPod not configured: process_job_runpod calls
\* simulate_generation, which runs to its first sleep
simulate_generation_begin(job_id) ==
    /\ task[job_id].pc = "scheduled"
    /\ ~RUNPOD_CONFIGURED
    /\ IF ~found(get_job(job_id))
       THEN /\ task' = [task EXCEPT ![job_id].pc = "done"]
            /\ UNCHANGED jobs_store
       ELSE /\ jobs_store' = save_job(job_id,
                [get_job(job_id) EXCEPT
                    !.status = "running",
                    !.message = "Initializing generation (simulated mode)...",
                    !.progress = 10])
            /\ task' = [task EXCEPT ![job_id].pc = "sim", ![job_id].i = 0]
    /\ last' = NoExchange
    /\ UNCHANGED <<RUNPOD_CONFIGURED, sample_exists, keys, now, terminal_writes>>

\* one sleep of the loop ends: the progress write of iteration i, and after
\* the last iteration the completion, with no await in between
simulate_generation_step(job_id) ==
    /\ task[job_id].pc = "sim"
    /\ LET i == task[job_id].i
           progress == sim_progress(i)
           job == [get_job(job_id) EXCEPT !.progress = progress,
                                          !.message = sim_message(progress)]
       IN  IF i + 1 < steps
           THEN /\ jobs_store' = save_job(job_id, job)
                /\ task' = [task EXCEPT ![job_id].i = i + 1]
                /\ UNCHANGED terminal_writes
           ELSE /\ jobs_store' = save_job(job_id, sim_complete(job))
                /\ task' = [task EXCEPT ![job_id].pc = "done", ![job_id].i = i + 1]
                /\ terminal_writes' = wrote(job_id, "simulation", "completed")
    /\ last' = NoExchange
    /\ UNCHANGED <<RUNPOD_CONFIGURED, sample_exists, keys, now>>

(***************************************************************************)
(* process_job_runpod                                                      *)
(***************************************************************************)
\* answers to POST {RUNPOD_ENDPOINT_URL}/run
RunResponses == { RunResponse("ok", "rp-1", 200),
                  RunResponse("http_error", None, 500),
                  RunResponse("exception", None, 0) }

\* bodies of answers to GET {RUNPOD_ENDPOINT_URL}/status/{id}; Malformed is a
\* body that is not JSON
PollBodies ==
    TerminalBodies
    \cup { Body(TRUE, s, OutEmpty, Missing) : s \in {"IN_PROGRESS", "IN_QUEUE", ""} }
    \cup { Malformed }

\* a JSON body an HTTP error answer carries: no status key
ErrorBody == Body(TRUE, "", OutEmpty, "Internal Server Error")
\* answers to the status request: the HTTP status code and the body; code 0 is
\* a request that raised (no answer), 500 an error answer with a JSON body,
\* 502 an error answer whose body is not JSON
StatusResponses ==
    { [code |-> 200, data |-> b] : b \in PollBodies \ {Malformed} }
    \cup { [code |-> 0, data |-> Malformed],
           [code |-> 500, data |-> ErrorBody],
           [code |-> 502, data |-> Malformed] }

min(a, b) == IF a < b THEN a ELSE b
\* the estimate restarted from 5 instead of 15
poll_progress_from5(poll_count) == min(5 + poll_count \div 3, 95)
\* progress = min(15 + poll_count // 3, 95)
poll_progress(poll_count) == min(15 + poll_count \div 3, 95)

\* a failed job dropped from the store
fail_dropped(job, error) == NoJob
\* the three writes of a failure: status, error, completed_at
fail(job, error) ==
    [job EXCEPT !.status = "failed", !.error = error, !.completed_at = now]

\* the loop left without a write
timed_out_silent(job) == job
\* lines 284-286: the loop ended with its budget used up
timed_out(job) == fail(job, "Job timed out after 20 minutes")

\* output.get("video_url") or output.get("url") or output.get("result")
poll_video_url(output) ==
    or(or(get(output, "video_url"), get(output, "url")), get(output, "result"))

\* the URL read from the key "url" alone
poll_completed_url_only(job, output) ==
    [job EXCEPT !.status = "completed", !.video_url = get(output, "url"),
                !.output = <<output>>, !.message = "Generation complete!",
                !.progress = 100, !.completed_at = now]

\* lines 254-262
poll_completed(job, output) ==
    [job EXCEPT !.status = "completed", !.video_url = poll_video_url(output),
                !.output = <<output>>, !.message = "Generation complete!",
                !.progress = 100, !.completed_at = now]

\* the task starts with RunPod configured: lines 184-197
process_job_runpod_begin(job_id) ==
    /\ task[job_id].pc = "scheduled"
    /\ RUNPOD_CONFIGURED
    /\ IF ~found(get_job(job_id))
       THEN /\ task' = [task EXCEPT ![job_id].pc = "done"]
            /\ UNCHANGED jobs_store
       ELSE /\ jobs_store' = save_job(job_id,
                [get_job(job_id) EXCEPT !.status = "running",
                                        !.message = "Connecting to RunPod...",
                                        !.progress = 5])
            /\ task' = [task EXCEPT ![job_id].pc = "connect"]
    /\ last' = NoExchange
    /\ UNCHANGED <<RUNPOD_CONFIGURED, sample_exists, keys, now, terminal_writes>>

\* lines 220-229: the client is open, the start request is sent
process_job_runpod_start(job_id) ==
    /\ task[job_id].pc = "connect"
    /\ jobs_store' = save_job(job_id,
            [get_job(job_id) EXCEPT !.message = "Starting generation on RunPod...",
                                    !.progress = 10])
    /\ task' = [task EXCEPT ![job_id].pc = "run"]
    /\ last' = NoExchange
    /\ UNCHANGED <<RUNPOD_CONFIGURED, sample_exists, keys, now, terminal_writes>>

\* the answer to the start request used without raise_for_status()
process_job_runpod_started_unchecked(job_id, r) ==
    /\ task[job_id].pc = "run"
    /\ LET job == get_job(job_id) IN
       IF r.kind \in {"ok", "http_error"}
       THEN /\ jobs_store' = save_job(job_id,
                  [job EXCEPT !.runpod_job_id = r.id,
                              !.message = "RunPod job: " \o r.id,
                              !.progress = 15])
            /\ task' = [task EXCEPT ![job_id].pc = "sleep", ![job_id].poll_count = 0]
            /\ UNCHANGED terminal_writes
       ELSE /\ jobs_store' = save_job(job_id, fail(job, "Error: connection failed"))
            /\ task' = [task EXCEPT ![job_id].pc = "done"]
            /\ terminal_writes' = wrote(job_id, "driver", "failed")
    /\ last' = Exchange("run", job_id, <<>>, Malformed, r, 0, FALSE, JobView(NoJob))
    /\ UNCHANGED <<RUNPOD_CONFIGURED, sample_exists, keys, now>>

\* lines 230-243 and 289-298: the answer to the start request
process_job_runpod_started(job_id, r) ==
    /\ task[job_id].pc = "run"
    /\ LET job == get_job(job_id) IN
       CASE r.kind = "ok" ->
              /\ jobs_store' = save_job(job_id,
                    [job EXCEPT !.runpod_job_id = r.id,
                                !.message = "RunPod job: " \o r.id,
                                !.progress = 15])
              /\ task' = [task EXCEPT ![job_id].pc = "sleep", ![job_id].poll_count = 0]
              /\ UNCHANGED terminal_writes
         [] r.kind = "http_error" ->
              /\ jobs_store' = save_job(job_id,
                    fail(job, "RunPod API error: " \o ToString(r.code)))
              /\ task' = [task EXCEPT ![job_id].pc = "done"]
              /\ terminal_writes' = wrote(job_id, "driver", "failed")
         [] OTHER ->
              /\ jobs_store' = save_job(job_id, fail(job, "Error: connection failed"))
              /\ task' = [task EXCEPT ![job_id].pc = "done"]
              /\ terminal_writes' = wrote(job_id, "driver", "failed")
    /\ last' = Exchange("run", job_id, <<>>, Malformed, r, 0, FALSE, JobView(NoJob))
    /\ UNCHANGED <<RUNPOD_CONFIGURED, sample_exists, keys, now>>

\* lines 243-249: the sleep ends, poll_count += 1, the status request is sent
process_job_runpod_poll(job_id) ==
    /\ task[job_id].pc = "sleep"
    /\ task' = [task EXCEPT ![job_id].pc = "poll",
                            ![job_id].poll_count = task[job_id].poll_count + 1]
    /\ last' = NoExchange
    /\ UNCHANGED <<RUNPOD_CONFIGURED, sample_exists, keys, jobs_store, now, terminal_writes>>

\* lines 250-287 and 294-298: the answer to the status request, then the loop
\* test, and the timeout write when the budget is used up.  The HTTP status
\* code of the answer is not read: there is no raise_for_status() on it
process_job_runpod_polled(job_id, code, status_data) ==
    /\ task[job_id].pc = "poll"
    /\ LET job == get_job(job_id)
           poll_count == task[job_id].poll_count
           runpod_status == upper(status_data.status)
           again(j) == IF poll_count < MaxPolls
                       THEN /\ jobs_store' = save_job(job_id, j)
                            /\ task' = [task EXCEPT ![job_id].pc = "sleep"]
                            /\ UNCHANGED terminal_writes
                       ELSE /\ jobs_store' = save_job(job_id, timed_out(j))
                            /\ task' = [task EXCEPT ![job_id].pc = "done"]
                            /\ terminal_writes' = wrote(job_id, "driver", "failed")
       IN
       CASE ~status_data.valid ->
              /\ jobs_store' = save_job(job_id, fail(job, "Error: connection failed"))
              /\ task' = [task EXCEPT ![job_id].pc = "done"]
              /\ terminal_writes' = wrote(job_id, "driver", "failed")
         [] status_data.valid /\ runpod_status = "COMPLETED" ->
              /\ jobs_store' = save_job(job_id, poll_completed(job, status_data.output))
              /\ task' = [task EXCEPT ![job_id].pc = "done"]
              /\ terminal_writes' = wrote(job_id, "poll", "completed")
         [] status_data.valid /\ runpod_status = "FAILED" ->
              /\ jobs_store' = save_job(job_id,
                    fail(job, get_default(status_data, "error", "RunPod job failed")))
              /\ task' = [task EXCEPT ![job_id].pc = "done"]
              /\ terminal_writes' = wrote(job_id, "poll", "failed")
         [] status_data.valid /\ runpod_status = "IN_PROGRESS" ->
              again([job EXCEPT
                        !.message = "Generating video... (" \o runpod_status \o ")",
                        !.progress = poll_progress(poll_count)])
         [] OTHER ->
              again([job EXCEPT !.message = "Status: " \o runpod_status])
    /\ last' = Exchange("status", job_id, <<>>, status_data, NoRun, code, FALSE,
                        JobView(NoJob))
    /\ UNCHANGED <<RUNPOD_CONFIGURED, sample_exists, keys, now>>

(***************************************************************************)
(* GET /api/jobs/{job_id}                                                  *)
(***************************************************************************)
api_get_job(job_id) ==
    /\ last' = IF ~found(get_job(job_id))
               THEN Request("get", job_id, <<>>, Malformed, 404, FALSE, JobView(NoJob))
               ELSE Request("get", job_id, <<>>, Malformed, 200, TRUE,
                            JobView(get_job(job_id)))
    /\ UNCHANGED <<RUNPOD_CONFIGURED, sample_exists, keys, jobs_store, task, now,
                   terminal_writes>>

(***************************************************************************)
(* GET /api/jobs                                                           *)
(***************************************************************************)
\* list(jobs.values()): the records in the order of the keys
values == [k \in 1..Len(keys) |-> jobs_store[keys[k]]]

\* x put into a list sorted by created_at descending, behind every element
\* that is not older than x
RECURSIVE insert_desc(_, _)
insert_desc(sorted, x) ==
    IF sorted = <<>> THEN <<x>>
    ELSE IF Head(sorted).created_at >= x.created_at
         THEN <<Head(sorted)>> \o insert_desc(Tail(sorted), x)
         ELSE <<x>> \o sorted
\* x put into a list sorted by created_at ascending, behind every element
\* that is not newer than x
RECURSIVE insert_asc(_, _)
insert_asc(sorted, x) ==
    IF sorted = <<>> THEN <<x>>
    ELSE IF Head(sorted).created_at <= x.created_at
         THEN <<Head(sorted)>> \o insert_asc(Tail(sorted), x)
         ELSE <<x>> \o sorted
RECURSIVE sort_asc(_)
sort_asc(job_list) ==
    IF job_list = <<>> THEN <<>>
    ELSE insert_asc(sort_asc(SubSeq(job_list, 1, Len(job_list) - 1)),
                    job_list[Len(job_list)])
reversed(l) == [k \in 1..Len(l) |-> l[Len(l) + 1 - k]]
\* the list sorted ascending and then reversed
sort_asc_reversed(job_list) == reversed(sort_asc(job_list))
\* job_list.sort(key=created_at, reverse=True): list.sort is stable, also
\* with reverse=True, so records of equal created_at keep their order
RECURSIVE sort(_)
sort(job_list) ==
    IF job_list = <<>> THEN <<>>
    ELSE insert_desc(sort(SubSeq(job_list, 1, Len(job_list) - 1)),
                     job_list[Len(job_list)])

\* the records sorted ascending and the list turned over
get_all_jobs_reversed == sort_asc_reversed(values)
\* lines 79-83
get_all_jobs == sort(values)

\* l[:limit]
slice(l, limit) ==
    IF limit >= 0 THEN SubSeq(l, 1, min(limit, Len(l)))
    ELSE SubSeq(l, 1, Len(l) + limit)
\* lines 85-86
get_recent_jobs(limit) == slice(get_all_jobs, limit)

\* [j for j in jobs if j.get("status") == status]
with_status(jobs, status) ==
    LET RECURSIVE sel(_)
        sel(l) == IF l = <<>> THEN <<>>
                  ELSE IF Head(l).status = status
                       THEN <<Head(l)>> \o sel(Tail(l)) ELSE sel(Tail(l))
    IN sel(jobs)

\* lines 393-398: the limit is applied first, the status filter after it
api_list_jobs(limit, status) ==
    /\ LET recent == get_recent_jobs(limit)
           jobs == IF truthy(status) THEN with_status(recent, status) ELSE recent
       IN last' = [Request("list", None, <<>>, Malformed, 200, TRUE, JobView(NoJob))
                      EXCEPT !.limit = limit, !.status = status, !.jobs = jobs]
    /\ UNCHANGED <<RUNPOD_CONFIGURED, sample_exists, keys, jobs_store, task, now,
                   terminal_writes>>

(***************************************************************************)
(* POST /api/webhook/{job_id}                                              *)
(***************************************************************************)
\* output.get("video_url") or output.get("url")
webhook_video_url(output) == or(get(output, "video_url"), get(output, "url"))

\* the time of the completion written to created_at
webhook_completed_created_at(job, output) ==
    [job EXCEPT !.status = "completed", !.video_url = webhook_video_url(output),
                !.output = <<output>>, !.progress = 100, !.message = "Complete!",
                !.created_at = now]

\* lines 444-451
webhook_completed(job, output) ==
    [job EXCEPT !.status = "completed", !.video_url = webhook_video_url(output),
                !.output = <<output>>, !.progress = 100, !.message = "Complete!",
                !.completed_at = now]

\* any other status taken as a report that the job is running
webhook_update_running(job, data) ==
    LET status == upper(data.status) IN
    CASE status = "COMPLETED" -> webhook_completed(job, data.output)
      [] status = "FAILED" -> fail(job, get_default(data, "error", "Job failed"))
      [] OTHER -> [job EXCEPT !.status = "running",
                              !.message = "Webhook: " \o status]

\* lines 441-457: the record after the branch on the status of the body
webhook_update(job, data) ==
    LET status == upper(data.status) IN
    CASE status = "COMPLETED" -> webhook_completed(job, data.output)
      [] status = "FAILED" -> fail(job, get_default(data, "error", "Job failed"))
      [] OTHER -> [job EXCEPT !.message = "Webhook: " \o status]

\* the handler without its 404 test
api_webhook_no404(job_id, data) ==
    /\ IF ~data.valid
       THEN /\ last' = Request("webhook", job_id, <<>>, data, 200, FALSE,
                               JobView(NoJob))
            /\ UNCHANGED jobs_store
       ELSE /\ jobs_store' = IF job_id \in DOMAIN jobs_store
                             THEN save_job(job_id, webhook_update(get_job(job_id), data))
                             ELSE jobs_store
            /\ last' = Request("webhook", job_id, <<>>, data, 200, TRUE,
                               JobView(NoJob))
    /\ UNCHANGED <<RUNPOD_CONFIGURED, sample_exists, keys, task, now, terminal_writes>>

\* The handler looks the job up, awaits the body and then writes.  What it
\* holds across the await is the stored record itself and records are never
\* removed, so the lookup and the write are one step.
api_webhook(job_id, data) ==
    /\ LET job == get_job(job_id) IN
       IF ~found(job)
       THEN /\ last' = Request("webhook", job_id, <<>>, data, 404, FALSE,
                               JobView(NoJob))
            /\ UNCHANGED <<jobs_store, terminal_writes>>
       ELSE IF ~data.valid
       THEN /\ last' = Request("webhook", job_id, <<>>, data, 200, FALSE,
                               JobView(NoJob))
            /\ UNCHANGED <<jobs_store, terminal_writes>>
       ELSE /\ jobs_store' = save_job(job_id, webhook_update(job, data))
            /\ last' = Request("webhook", job_id, <<>>, data, 200, TRUE,
                               JobView(NoJob))
            /\ terminal_writes' =
                  IF upper(data.status) \in {"COMPLETED", "FAILED"}
                  THEN wrote(job_id, "webhook", webhook_update(job, data).status)
                  ELSE terminal_writes
    /\ UNCHANGED <<RUNPOD_CONFIGURED, sample_exists, keys, task, now>>

(***************************************************************************)
(* Specifications.                                                         *)
(***************************************************************************)
Next ==
    \/ Tick
    \/ \E p \in Prompts : api_create_job_rejected(p)
    \/ \E p \in Prompts, id \in FreshIds : api_create_job(p, id)
    \/ \E id \in RequestIds : api_get_job(id)
    \/ \E id \in RequestIds, d \in WebhookBodies : api_webhook(id, d)
    \/ \E id \in JobIds : simulate_generation_begin(id)
    \/ \E id \in JobIds : simulate_generation_step(id)
    \/ \E id \in JobIds : process_job_runpod_begin(id)
    \/ \E id \in JobIds : process_job_runpod_start(id)
    \/ \E id \in JobIds, r \in RunResponses : process_job_runpod_started(id, r)
    \/ \E id \in JobIds : process_job_runpod_poll(id)
    \/ \E id \in JobIds, r \in StatusResponses :
            process_job_runpod_polled(id, r.code, r.data)

Spec == Init /\ [][Next]_vars

\* Simulation mode with no webhook delivered.  The event loop resumes every
\* task whose sleep has ended, so the steps of a task are weakly fair.
InitSim == Init /\ ~RUNPOD_CONFIGURED
NextSim ==
    \/ Tick
    \/ \E p \in Prompts : api_create_job_rejected(p)
    \/ \E p \in Prompts, id \in FreshIds : api_create_job(p, id)
    \/ \E id \in RequestIds : api_get_job(id)
    \/ \E id \in JobIds : simulate_generation_begin(id)
    \/ \E id \in JobIds : simulate_generation_step(id)
SimSpec ==
    /\ InitSim
    /\ [][NextSim]_vars
    /\ \A id \in JobIds :
          WF_vars(simulate_generation_begin(id) \/ simulate_generation_step(id))

\* A provider that accepts the start request and never reports a terminal
\* status, neither in a poll nor in a webhook.  The event loop resumes the
\* task after every sleep, and every request of the client ends (timeout=600.0),
\* so the steps of the driver are weakly fair.
RunAccepted == { r \in RunResponses : r.kind = "ok" }
NonTerminalResponses ==
    { r \in StatusResponses :
        r.data.valid /\ upper(r.data.status) \notin {"COMPLETED", "FAILED"} }
NonTerminalWebhooks == WebhookBodies \ TerminalBodies
InitTimeout == Init /\ RUNPOD_CONFIGURED
poll_loop(id) ==
    \/ process_job_runpod_begin(id)
    \/ process_job_runpod_start(id)
    \/ \E r \in RunAccepted : process_job_runpod_started(id, r)
    \/ process_job_runpod_poll(id)
    \/ \E r \in NonTerminalResponses : process_job_runpod_polled(id, r.code, r.data)
NextTimeout ==
    \/ Tick
    \/ \E p \in Prompts : api_create_job_rejected(p)
    \/ \E p \in Prompts, id \in FreshIds : api_create_job(p, id)
    \/ \E id \in RequestIds : api_get_job(id)
    \/ \E id \in RequestIds, d \in NonTerminalWebhooks : api_webhook(id, d)
    \/ \E id \in JobIds : poll_loop(id)
TimeoutSpec ==
    /\ InitTimeout
    /\ [][NextTimeout]_vars
    /\ \A id \in JobIds : WF_vars(poll_loop(id))

\* The store with several jobs and the list requests.  Before their drivers
\* take a step, webhooks give the jobs their statuses.
StoreIds == {"a1b2c3d4", "e5f6a7b8", "0c9d8e7f"}
StoreWebhooks == { Body(TRUE, "COMPLETED", OutVideoUrl, Missing),
                   Body(TRUE, "FAILED", OutEmpty, Missing) }
\* query parameters of a list request: limit (50 when absent) and status
Limits == {1, 2, 50}
Filters == {None, "queued", "completed"}
InitStore ==
    /\ RUNPOD_CONFIGURED = TRUE
    /\ sample_exists = FALSE
    /\ jobs_store = [id \in StoreIds |-> NoJob]
    /\ keys = <<>>
    /\ task = [id \in StoreIds |-> NoTask]
    /\ now = 0
    /\ last = NoExchange
    /\ terminal_writes = [id \in StoreIds |-> {}]
NextList ==
    \/ Tick
    \/ \E p \in Prompts, id \in FreshIds : api_create_job(p, id)
    \/ \E id \in StoreIds, d \in StoreWebhooks : api_webhook(id, d)
    \/ \E limit \in Limits, status \in Filters : api_list_jobs(limit, status)
ListSpec == InitStore /\ [][NextList]_vars

\* The ids as str(uuid.uuid4())[:8] gives them: any of the 16^8 prefixes,
\* also one the store holds.
NextUuid ==
    \/ Tick
    \/ \E p \in Prompts, id \in StoreIds : api_create_job(p, id)
    \/ \E id \in StoreIds, d \in StoreWebhooks : api_webhook(id, d)
UuidSpec == InitStore /\ [][NextUuid]_vars

(***************************************************************************)
(* Properties.                                                             *)
(***************************************************************************)
Record(id) == jobs_store[id]
NonTerminal == {"queued", "running"}

\* C1: once the status of a job is completed or failed, no later step of the
\* driver, the simulation or the webhook handler changes that status
C1_TerminalStatusKept ==
    [][\A id \in JobIds :
          Record(id).status \in Terminal
              => Record(id)'.status = Record(id).status]_vars

\* the record carries the outcome of a completion and of a failure at once
Mixed(job) ==
    \/ /\ job.status = "failed"
       /\ job.video_url # None \/ job.output # <<>> \/ job.progress = 100
    \/ /\ job.status = "completed"
       /\ job.error # None
\* a poll of the driver and a webhook wrote opposite outcomes, in either order
Raced(id) ==
    \/ {Write("poll", "completed"), Write("webhook", "failed")}
            \subseteq terminal_writes[id]
    \/ {Write("poll", "failed"), Write("webhook", "completed")}
            \subseteq terminal_writes[id]

\* C2: when a completed write and a failed write, one of the driver's poll
\* and one of the webhook, were both applied to a job, its record is not
\* mixed: not failed with the video_url, output or progress 100 of the
\* completion, and not completed with the error of the failure
C2_NoMixedRecord == \A id \in JobIds : Raced(id) => ~Mixed(Record(id))

\* C3: a terminal webhook body delivered again, right after its first
\* delivery, to a job that is terminal leaves the whole record unchanged
C3_ReplayIsNoOp ==
    [][( /\ last.op = "webhook" /\ last.ok
         /\ last.body \in TerminalBodies
         /\ last' = last
         /\ get_job(last.job_id).status \in Terminal )
          => jobs_store' = jobs_store]_vars

\* C4: completed_at is null until the first terminal write to the job, is set
\* by that write, and is never rewritten afterwards
C4_CompletedAtWrittenOnce ==
    /\ [](\A id \in JobIds :
            terminal_writes[id] = {} => Record(id).completed_at = NoTime)
    /\ [][\A id \in JobIds :
            /\ (terminal_writes[id] = {} /\ terminal_writes'[id] # {})
                   => Record(id)'.completed_at = now
            /\ Record(id).completed_at # NoTime
                   => Record(id)'.completed_at = Record(id).completed_at]_vars

\* C5: while a job is queued or running, no step of the driver, the
\* simulation or the webhook handler decreases its progress
C5_ProgressMonotone ==
    [][\A id \in JobIds :
          Record(id).status \in NonTerminal
              => Record(id)'.progress >= Record(id).progress]_vars

\* a running job whose progress a poll has raised and whose message a webhook
\* then overwrote
C5_Witness ==
    \E id \in JobIds :
        /\ Record(id).status = "running"
        /\ Record(id).progress = 16
        /\ Record(id).message = "Webhook: IN_PROGRESS"

\* the prompt has no character other than whitespace
AllWhitespace(prompt) == \A k \in 1..Len(prompt) : prompt[k] \in Whitespace

\* C6: a create-job request whose prompt is empty or all whitespace is
\* answered 400, stores no record and schedules no task
C6_EmptyPromptRejected ==
    [][(last'.op = "create" /\ AllWhitespace(last'.prompt))
          => /\ last'.code = 400
             /\ jobs_store' = jobs_store
             /\ task' = task]_vars

C6_Witness ==
    /\ last.op = "create"
    /\ last.prompt = <<"\t", " ">>
    /\ last.code = 400
    /\ \A id \in JobIds : ~found(Record(id)) /\ task[id] = NoTask

\* C7: get-job-status and webhook with an id that is not in the store answer
\* 404 and leave every record as it was
C7_UnknownIdNotFound ==
    [][(last'.op \in {"get", "webhook"} /\ last' # last
            /\ ~found(get_job(last'.job_id)))
          => /\ last'.code = 404
             /\ jobs_store' = jobs_store
             /\ task' = task]_vars

\* a terminal webhook for an unknown id was answered 404 while a job is stored
C7_Witness ==
    /\ last.op = "webhook"
    /\ last.job_id = "nonexistent"
    /\ last.body \in TerminalBodies
    /\ last.code = 404
    /\ \E id \in JobIds : Record(id).status = "running"

SimCompleted(id) ==
    /\ Record(id).status = "completed"
    /\ Record(id).progress = 100
    /\ Record(id).completed_at # NoTime
    /\ Record(id).video_url # None \/ Record(id).message = NotConnected

\* C9: in simulation mode with no webhook, every created job eventually is
\* completed with progress 100 and completed_at set, with a video_url or else
\* the explanatory message; it never is failed; and every step of its task
\* raises progress strictly, taking the status from queued to running, from
\* running to running or from running to completed
C9_SimulationCompletes ==
    /\ \A id \in JobIds : found(Record(id)) ~> SimCompleted(id)
    /\ [](\A id \in JobIds :
            /\ Record(id).status # "failed"
            /\ Record(id).status = "completed" => SimCompleted(id))
    /\ [][\A id \in JobIds :
            (found(Record(id)) /\ Record(id)' # Record(id))
                => /\ Record(id)'.progress > Record(id).progress
                   /\ <<Record(id).status, Record(id)'.status>> \in
                        { <<"queued", "running">>, <<"running", "running">>,
                          <<"running", "completed">> }]_vars

\* a job completed without a sample video: no video_url, the explanation
C9_Witness ==
    \E id \in JobIds :
        /\ ~RUNPOD_CONFIGURED
        /\ task[id].pc = "done"
        /\ SimCompleted(id)
        /\ Record(id).video_url = None
        /\ terminal_writes[id] = {Write("simulation", "completed")}

\* C10: when the first poll after a successful start answers COMPLETED with
\* output.video_url = u, that step leaves the job completed with video_url u,
\* output the provider's output, progress 100 and completed_at set, and ends
\* the driver; a driver that has ended sends no further poll
C10_FirstPollCompleted ==
    [][\A id \in JobIds :
          /\ ( /\ task[id].pc = "poll" /\ task[id].poll_count = 1
               /\ task'[id] # task[id]
               /\ last'.op = "status" /\ last'.body.valid
               /\ last'.body.status \in {"COMPLETED", "completed"}
               /\ last'.body.output.video_url \notin {Missing, ""} )
             => /\ Record(id)'.status = "completed"
                /\ Record(id)'.video_url = last'.body.output.video_url
                /\ Record(id)'.output = <<last'.body.output>>
                /\ Record(id)'.progress = 100
                /\ Record(id)'.completed_at = now
                /\ Record(id)'.runpod_job_id # None
                /\ task'[id].pc = "done"
                /\ task'[id].poll_count = 1
          /\ task[id].pc = "done" => task'[id] = task[id]]_vars

\* the driver ended after one poll with the provider's URL in the record
C10_Witness ==
    \E id \in JobIds :
        /\ task[id].pc = "done" /\ task[id].poll_count = 1
        /\ last.op = "status" /\ last.body.status = "COMPLETED"
        /\ Record(id).status = "completed"
        /\ Record(id).video_url = "https://x/y.mp4"
        /\ terminal_writes[id] = {Write("poll", "completed")}

\* the driver has ended on its poll budget and the job is failed, timed out
TimedOut(id) ==
    /\ task[id].pc = "done"
    /\ task[id].poll_count = MaxPolls
    /\ Record(id).status = "failed"
    /\ Record(id).error = "Job timed out after 20 minutes"
    /\ Record(id).completed_at # NoTime

\* C11: when no poll (and no webhook) reports a terminal status, every created
\* job eventually is failed with the timed-out error and completed_at set and
\* its driver has ended; the driver never polls more than its budget, and it
\* ends in no other way
C11_PollBudgetTimeout ==
    /\ \A id \in JobIds : found(Record(id)) ~> TimedOut(id)
    /\ [](\A id \in JobIds :
            /\ task[id].poll_count <= MaxPolls
            /\ task[id].pc = "done" => TimedOut(id)
            /\ Record(id).status = "failed" => TimedOut(id))

\* the last poll of the budget answered IN_QUEUE and the job timed out
C11_Witness ==
    \E id \in JobIds :
        /\ TimedOut(id)
        /\ last.op = "status" /\ last.body.status = "IN_QUEUE"
        /\ terminal_writes[id] = {Write("driver", "failed")}

\* C12 as stated: with the provider not configured, once the driver of a job
\* has started, the job is failed with an error
C12_NotConfiguredFails ==
    \A id \in JobIds :
        (~RUNPOD_CONFIGURED /\ task[id].pc \notin {"none", "scheduled"})
            => Record(id).status = "failed" /\ Record(id).error # None

\* C12 amended: with the provider not configured, the driver runs the
\* simulation: its first step sets status running and progress 10, its last
\* step sets status completed and progress 100, no step in between changes
\* the status, and no step writes an error
C12_NotConfiguredSimulates ==
    [][\A id \in JobIds :
          (~RUNPOD_CONFIGURED /\ task[id].pc # "none" /\ task'[id] # task[id])
              => /\ Record(id)'.error = Record(id).error
                 /\ task[id].pc = "scheduled"
                       => /\ Record(id)'.status = "running"
                          /\ Record(id)'.progress = 10
                          /\ task'[id].pc = "sim"
                 /\ (task[id].pc = "sim" /\ task'[id].pc = "sim")
                       => Record(id)'.status = Record(id).status
                 /\ (task[id].pc = "sim" /\ task'[id].pc = "done")
                       => /\ Record(id)'.status = "completed"
                          /\ Record(id)'.progress = 100]_vars

\* the driver of a new job has made its first step without configuration
C12_Witness ==
    \E id \in JobIds :
        /\ ~RUNPOD_CONFIGURED
        /\ task[id].pc = "sim" /\ task[id].i = 0
        /\ Record(id).status = "running" /\ Record(id).progress = 10
        /\ Record(id).error = None
        /\ terminal_writes[id] = {}

\* C13: no step removes a record from the store: a job whose creation was
\* answered stays stored under its id through every later step, whatever its
\* status, and every status read of a stored id is answered 200 with that id
C13_JobNeverRemoved ==
    /\ [](\A id \in JobIds : task[id].pc # "none" => found(Record(id)))
    /\ [][\A id \in JobIds :
            found(Record(id))
                => found(Record(id)') /\ Record(id)'.job_id = id]_vars
    /\ [][(last'.op = "get" /\ last' # last /\ found(get_job(last'.job_id)))
            => /\ last'.code = 200
               /\ last'.view.job_id = last'.job_id
               /\ last'.view.status = get_job(last'.job_id).status]_vars

\* a status read of a failed job, after its driver ended, was answered 200
C13_Witness ==
    \E id \in JobIds :
        /\ task[id].pc = "done"
        /\ Record(id).status = "failed"
        /\ last.op = "get" /\ last.job_id = id /\ last.code = 200
        /\ last.view.status = "failed" /\ last.view.error # None

\* a webhook has written a terminal status to the job
WebhookTerminated(id) == \E s \in Terminal : Write("webhook", s) \in terminal_writes[id]

\* C14: once a webhook has recorded a terminal status for a job, no step of
\* the job's driver writes to the record, and the driver sends no new poll
C14_DriverStopsAfterWebhook ==
    [][\A id \in JobIds :
          (WebhookTerminated(id) /\ task'[id] # task[id])
              => /\ Record(id)' = Record(id)
                 /\ ~(task[id].pc = "sleep" /\ task'[id].pc = "poll")]_vars

\* C15: a poll that fails in transport, the request raising or the status
\* endpoint answering an HTTP error, leaves the job failed and ends the driver
C15_PollTransportFailureFails ==
    [][\A id \in JobIds :
          ( /\ task[id].pc = "poll" /\ task'[id] # task[id]
            /\ last'.op = "status"
            /\ last'.code = 0 \/ last'.code >= 400 )
              => /\ Record(id)'.status = "failed"
                 /\ task'[id].pc = "done"]_vars

C17_WebhookErrorCaptured ==
    [][( /\ last'.op = "webhook" /\ last' # last
         /\ found(get_job(last'.job_id))
         /\ ~last'.body.valid )
          => /\ jobs_store'[last'.job_id].status = "failed"
             /\ jobs_store'[last'.job_id].error # None]_vars

\* C18: a job that is queued or running has video_url, output, error and
\* completed_at all null
C18_NonTerminalFieldsNull ==
    \A id \in JobIds :
        Record(id).status \in NonTerminal
            => /\ Record(id).video_url = None
               /\ Record(id).output = <<>>
               /\ Record(id).error = None
               /\ Record(id).completed_at = NoTime

\* C19: a poll answered FAILED, for a job no webhook has terminated, leaves
\* the job failed with the error of the answer, or "RunPod job failed" when
\* the answer has none, completed_at set and nothing of a completion in the
\* record, and ends the driver; a driver that has ended sends no poll
C19_PollFailed ==
    [][\A id \in JobIds :
          /\ ( /\ task[id].pc = "poll" /\ task'[id] # task[id]
               /\ last'.op = "status" /\ last'.body.valid
               /\ last'.body.status = "FAILED"
               /\ ~WebhookTerminated(id) )
                => /\ Record(id)'.status = "failed"
                   /\ Record(id)'.error =
                         IF last'.body.error = Missing
                         THEN "RunPod job failed" ELSE last'.body.error
                   /\ Record(id)'.completed_at = now
                   /\ Record(id)'.video_url = None
                   /\ Record(id)'.output = <<>>
                   /\ Record(id)'.progress < 100
                   /\ task'[id].pc = "done"
          /\ task[id].pc = "done"
                => /\ task'[id].pc = "done"
                   /\ task'[id].poll_count = task[id].poll_count]_vars

\* the second poll answered FAILED with an error of the provider
C19_Witness ==
    \E id \in JobIds :
        /\ task[id].pc = "done" /\ task[id].poll_count = 2
        /\ last.op = "status" /\ last.body.status = "FAILED"
        /\ last.body.error = "boom"
        /\ Record(id).status = "failed" /\ Record(id).error = "boom"
        /\ Record(id).completed_at # NoTime
        /\ terminal_writes[id] = {Write("poll", "failed")}

\* C20: a job whose status is not completed has progress below 100
C20_ProgressBelow100 ==
    \A id \in JobIds :
        Record(id).status # "completed" => Record(id).progress < 100

\* C21: a webhook for a stored job whose status is neither COMPLETED nor
\* FAILED changes the message of the record and nothing else, whether the
\* job is queued, running, completed or failed
C21_OtherWebhookMessageOnly ==
    [][( /\ last'.op = "webhook" /\ last'.body.valid
         /\ last'.body.status \notin {"COMPLETED", "completed", "FAILED"}
         /\ found(get_job(last'.job_id)) )
          => /\ jobs_store'[last'.job_id] =
                    [get_job(last'.job_id) EXCEPT
                        !.message = "Webhook: " \o last'.body.status]
             /\ last'.code = 200 /\ last'.ok
             /\ task' = task]_vars

\* an IN_PROGRESS webhook reached a completed job: it is still completed, 100
C21_Witness ==
    \E id \in JobIds :
        /\ last.op = "webhook" /\ last.job_id = id
        /\ last.body.status = "IN_PROGRESS"
        /\ Record(id).message = "Webhook: IN_PROGRESS"
        /\ Record(id).status = "completed" /\ Record(id).progress = 100
        /\ Record(id).video_url # None /\ Record(id).completed_at # NoTime

\* C25: a job whose status is completed has progress 100
C25_CompletedProgress100 ==
    \A id \in JobIds :
        Record(id).status = "completed" => Record(id).progress = 100

\* C26: a completion records the same video_url for the same output whether
\* it comes through a poll or through the webhook: the URL a completing step
\* writes is the one either of the two extractions gives for its output
C26_SameVideoUrl ==
    [][( /\ last'.op \in {"status", "webhook"} /\ last' # last
         /\ last'.body.valid
         /\ last'.body.status \in {"COMPLETED", "completed"}
         /\ found(get_job(last'.job_id)) )
          => /\ jobs_store'[last'.job_id].video_url
                    = poll_video_url(last'.body.output)
             /\ jobs_store'[last'.job_id].video_url
                    = webhook_video_url(last'.body.output)]_vars

\* what api_create_job sets and nothing is to change afterwards
Immutable(job) ==
    <<job.job_id, job.prompt, job.negative_prompt, job.seed, job.steps,
      job.cfg_scale, job.duration_seconds, job.fps, job.width, job.height,
      job.image_url, job.created_at>>

\* C22: no step of the driver, the simulation or a webhook changes the id,
\* the prompt, the negative prompt, a generation parameter or created_at of
\* a stored job
C22_CreationFieldsKept ==
    [][\A id \in JobIds :
          found(Record(id)) => Immutable(Record(id))' = Immutable(Record(id))]_vars

\* a job created at time 0 that the driver ran to its timeout and a webhook
\* then completed at time 1 still has what it was created with
C22_Witness ==
    \E id \in JobIds :
        /\ task[id].pc = "done" /\ task[id].poll_count = MaxPolls
        /\ Write("driver", "failed") \in terminal_writes[id]
        /\ last.op = "webhook" /\ last.body.status = "COMPLETED"
        /\ Record(id).status = "completed" /\ Record(id).completed_at = 1
        /\ Immutable(Record(id)) =
              <<id, <<"f", " ", "x">>, "", -1, 30, "7.5", "4.0", 24, 512, 512,
                None, 0>>

\* the place of a key in the store: keys are held in insertion order
Pos(id) == CHOOSE k \in 1..Len(keys) : keys[k] = id
\* the stored records whose status is s
Stored(s) == { id \in DOMAIN jobs_store :
                 found(jobs_store[id]) /\ jobs_store[id].status = s }

\* C23: the response to a list request holds stored records, none twice,
\* newest created_at first, and of two records with equal created_at the one
\* inserted first comes first; without a status filter it holds as many
\* records as the limit allows
C23_ListOrdered ==
    last.op = "list" =>
        /\ \A i \in 1..Len(last.jobs) :
              last.jobs[i] = jobs_store[last.jobs[i].job_id]
        /\ \A i, j \in 1..Len(last.jobs) :
              i < j =>
                /\ last.jobs[i].job_id # last.jobs[j].job_id
                /\ last.jobs[i].created_at >= last.jobs[j].created_at
                /\ last.jobs[i].created_at = last.jobs[j].created_at
                      => Pos(last.jobs[i].job_id) < Pos(last.jobs[j].job_id)
        /\ last.status = None => Len(last.jobs) = min(last.limit, Len(keys))

\* three jobs listed: the newest first, then two of equal created_at in the
\* order of their insertion
C23_Witness ==
    /\ last.op = "list" /\ last.status = None /\ Len(last.jobs) = 3
    /\ last.jobs[1].created_at = 1
    /\ last.jobs[2].created_at = 0 /\ last.jobs[3].created_at = 0
    /\ keys = <<last.jobs[2].job_id, last.jobs[3].job_id, last.jobs[1].job_id>>

\* C24: the response to a list request with status filter s and limit n
\* holds only records of status s, and as many of them as the store has, up
\* to n
C24_FilterThenLimit ==
    (last.op = "list" /\ last.status # None) =>
        /\ \A i \in 1..Len(last.jobs) : last.jobs[i].status = last.status
        /\ Len(last.jobs) = min(last.limit, Cardinality(Stored(last.status)))

\* C27: a create-job that is answered 200 took an id the store did not hold,
\* adds one record and leaves every record the store held as it was
C27_CreateAddsOneRecord ==
    [][(last'.op = "create" /\ last'.code = 200 /\ now' = now)
          => /\ ~found(get_job(last'.job_id))
             /\ Len(keys') = Len(keys) + 1
             /\ \A id \in DOMAIN jobs_store :
                   found(jobs_store[id]) => jobs_store'[id] = jobs_store[id]]_vars
====
